---- MODULE Spec2Model ----
(***************************************************************************)
(* kitsu.py: the Client of src/kitsu/client.py (token fields, the aiohttp  *)
(* session, the request primitives _post/_get and the public coroutines)   *)
(* and the response models of src/kitsu/models.py (Anime, Episode, Genre). *)
(*                                                                         *)
(* A coroutine suspends only at its `async with session.get/post` await:   *)
(* every public call is a start step (build the request, put it on the     *)
(* wire) and a resume step (the response arrives, the rest of the body     *)
(* runs to its return or raise without another suspension).                *)
(***************************************************************************)
EXTENDS Integers, Sequences, FiniteSets, TLC

VARIABLES
    token,          \* Client._token: None or a string
    refresh_token,  \* Client._refresh_token
    token_expires,  \* Client._token_expires: None or a naive local datetime
    session_closed, \* aiohttp.ClientSession.closed of Client._session
    tasks,          \* per caller task: the coroutine it is suspended in
    last,           \* the last thing the client did: a request sent, or a call's outcome
    now,            \* the wall clock (epoch seconds)
    run,            \* the caller's run: "running" or how it ended
    given,          \* models layer: the payload the constructor was called with
    obj,            \* models layer: the model object constructed
    read            \* models layer: the last accessor read and what it gave

vars == <<token, refresh_token, token_expires, session_closed, tasks, last, now, run, given, obj, read>>

clientVars == <<token, refresh_token, token_expires, session_closed, tasks, last, now, run>>
modelVars == <<given, obj, read>>

----------------------------------------------------------------------------
(* Python values *)

\* Optional[T]: None is the empty tuple, a value v is <<v>>.
None == <<>>
Some(v) == <<v>>

\* str(x) of an Optional[str], as an f-string formats it.
Str(x) == IF x = None THEN "None" ELSE x[1]

\* d restricted to the keys S (a dict that lacks the others).
Restrict(d, S) == [k \in S |-> d[k]]

HasKey(d, k) == k \in DOMAIN d

\* JSON values of a resource payload, tagged with their type.
JNull == [t |-> "null"]
JStr(x) == [t |-> "str", s |-> x]
JInt(x) == [t |-> "int", n |-> x]
JBool(x) == [t |-> "bool", b |-> x]
JList(x) == [t |-> "list", l |-> x]
JMap(x) == [t |-> "map", m |-> x]
EmptyMap == <<>>

----------------------------------------------------------------------------
(* Bounds and domains *)

Tasks == {"t1", "t2"}

\* The local timezone's offset from UTC, in seconds (datetime.fromtimestamp).
LocalUtcOffset == 3600

\* Clock readings: one before every expiry the server hands out, one after.
ClockEarly == 50
ClockLate == 900

\* Longest `data` array of a collection response.
MaxItems == 2

BASE == "https://kitsu.io/api/edge"
AUTH_BASE == "https://kitsu.io/api/oauth"

AnimeIds == {1}

Statuses == {200, 400, 401, 403, 404, 500}

TokenKeys == {"access_token", "refresh_token", "created_at", "expires_in"}
TokenA == [access_token |-> "tokA", refresh_token |-> "refA", created_at |-> 100, expires_in |-> 60]
TokenB == [access_token |-> "tokB", refresh_token |-> "refB", created_at |-> 200, expires_in |-> 30]

\* Error envelopes (spec section 6): OAuth errors and resource errors.
OAuthError == [error_description |-> "invalid_grant"]
ResourceError == [errors |-> <<[detail |-> "Not found"]>>]

\* Token-endpoint bodies: the two full token responses, token responses that
\* lack one required field, and the two error envelopes.
TokenBodies ==
    {TokenA, TokenB} \cup {Restrict(TokenB, TokenKeys \ {k}) : k \in {"access_token", "refresh_token", "expires_in"}}

PostResponses ==
    {[status |-> 200, body |-> b] : b \in TokenBodies \cup {OAuthError}}
      \cup {[status |-> s, body |-> b] : s \in Statuses \ {200}, b \in {OAuthError, ResourceError}}

\* Resource objects the server returns in `data`.
Resource(i) == JMap([id |-> JStr(ToString(i)), type |-> JStr("anime")])

DataLists == {[i \in 1..n |-> Resource(i)] : n \in 0..MaxItems}

CollectionBodies == {[data |-> l] : l \in DataLists}
ObjectBodies == {[data |-> Resource(1)]}

ErrorResponses ==
    {[status |-> s, body |-> b] : s \in Statuses \ {200}, b \in {OAuthError, ResourceError}}

GetResponses(op) ==
    {[status |-> 200, body |-> b] :
        b \in (IF op = "get_anime" THEN ObjectBodies ELSE CollectionBodies) \cup {ResourceError}}
      \cup ErrorResponses

----------------------------------------------------------------------------
(* Outcomes and events *)

NoBody == <<>>

\* What a call gives its caller: a value (exc = "none") or an exception.
Returned(v) == [exc |-> "none", msg |-> "", status |-> 0, value |-> v]
Raised(e, m, s) == [exc |-> e, msg |-> m, status |-> s, value |-> None]

\* A request put on the wire by session.get/post for the call op(args).
Request(op, args, method, url, headers, data) ==
    [ev |-> "request", op |-> op, args |-> args, method |-> method, url |-> url,
     headers |-> headers, data |-> data]

\* A call of `op` ended with outcome `out`, having received response `resp`.
Ended(op, resp, out) ==
    [ev |-> "ended", op |-> op, resp |-> resp, out |-> out]

NoResponse == [status |-> 0, body |-> NoBody]

Idle == [pc |-> "idle", op |-> "none"]
Awaiting(op) == [pc |-> "await", op |-> op]

NoArgs == [include_nsfw |-> FALSE]

----------------------------------------------------------------------------
(* Client: request primitives *)

\* dict.update: the entries of e over those of d.
Merge(d, e) == [k \in DOMAIN d \cup DOMAIN e |-> IF k \in DOMAIN e THEN e[k] ELSE d[k]]

UserAgent == "Kitsu.py (https://github.com/SageTendo/kitsu.py)"

PostHeaders(headers) ==
    Merge(headers, ("Accept" :> "application/json") @@ ("Content-Type" :> "application/json")
                     @@ ("User-Agent" :> UserAgent))

GetHeaders(headers) ==
    Merge(headers, ("Accept" :> "application/vnd.api+json")
                     @@ ("Content-Type" :> "application/vnd.api+json")
                     @@ ("User-Agent" :> UserAgent))

\* response.text(): the raw body; only the error envelopes come with a
\* status other than 200.
Text(body) ==
    IF HasKey(body, "error_description")
    THEN "{\"error_description\": \"" \o body.error_description \o "\"}"
    ELSE IF HasKey(body, "errors")
    THEN "{\"errors\": [{\"detail\": \"" \o body.errors[1].detail \o "\"}]}"
    ELSE "{}"

\* data["error_description"], raising exc with it.
RaiseDescription(exc, r) ==
    IF HasKey(r.body, "error_description")
    THEN Raised(exc, r.body.error_description, r.status)
    ELSE Raised("KeyError", "error_description", r.status)

\* data["errors"][0]["detail"], raising exc with it.
RaiseDetail(exc, r) ==
    IF ~HasKey(r.body, "errors") THEN Raised("KeyError", "errors", r.status)
    ELSE IF Len(r.body.errors) = 0 THEN Raised("IndexError", "list index out of range", r.status)
    ELSE IF ~HasKey(r.body.errors[1], "detail") THEN Raised("KeyError", "detail", r.status)
    ELSE Raised(exc, r.body.errors[1].detail, r.status)

\* Post with the 404 branch left out.
PostWithout404(r) ==
    IF r.status = 200 THEN Returned(Some(r.body))
    ELSE IF r.status = 400 THEN RaiseDescription("BadRequest", r)
    ELSE Raised("HTTPException", Text(r.body), r.status)

\* Client._post, from the response on.
Post(r) ==
    IF r.status = 200 THEN Returned(Some(r.body))
    ELSE IF r.status = 400 THEN RaiseDescription("BadRequest", r)
    ELSE IF r.status = 404 THEN RaiseDescription("NotFound", r)
    ELSE Raised("HTTPException", Text(r.body), r.status)

\* Client._get, from the response on.
Get(r) ==
    IF r.status = 200 THEN Returned(Some(r.body))
    ELSE IF r.status = 400 THEN RaiseDetail("BadRequest", r)
    ELSE IF r.status = 401 THEN RaiseDescription("Unauthorized", r)
    ELSE IF r.status = 403 THEN RaiseDescription("Forbidden", r)
    ELSE IF r.status = 404 THEN RaiseDetail("NotFound", r)
    ELSE Raised("HTTPException", Text(r.body), r.status)

----------------------------------------------------------------------------
(* Client: token storage *)

\* datetime.fromtimestamp(ts): the naive local datetime of an epoch time.
FromTimestamp(ts) == [wall |-> ts + LocalUtcOffset]

\* timedelta(seconds=n)
Timedelta(n) == [seconds |-> n]

\* datetime + timedelta
DatetimeAdd(dt, td) == [wall |-> dt.wall + td.seconds]

Fields == [token |-> token, refresh_token |-> refresh_token, token_expires |-> token_expires]

\* StoreToken with the lifetime left out of the expiry.
StoreTokenWithoutLifetime(cur, data) ==
    IF ~HasKey(data, "access_token")
    THEN [fields |-> cur, out |-> Raised("KeyError", "access_token", 200)]
    ELSE LET c1 == [cur EXCEPT !.token = Some(data.access_token)] IN
    IF ~HasKey(data, "refresh_token")
    THEN [fields |-> c1, out |-> Raised("KeyError", "refresh_token", 200)]
    ELSE LET c2 == [c1 EXCEPT !.refresh_token = Some(data.refresh_token)] IN
    IF ~HasKey(data, "created_at")
    THEN [fields |-> c2, out |-> Raised("KeyError", "created_at", 200)]
    ELSE IF ~HasKey(data, "expires_in")
    THEN [fields |-> c2, out |-> Raised("KeyError", "expires_in", 200)]
    ELSE [fields |-> [c2 EXCEPT !.token_expires = Some(FromTimestamp(data.created_at))],
          out |-> Returned(None)]

\* The four statements that follow `await self._post(...)` in authenticate and in
\* refresh_token, run in order from the fields `cur`; a missing key raises
\* KeyError and leaves what was assigned before it.
StoreToken(cur, data) ==
    IF ~HasKey(data, "access_token")
    THEN [fields |-> cur, out |-> Raised("KeyError", "access_token", 200)]
    ELSE LET c1 == [cur EXCEPT !.token = Some(data.access_token)] IN
    IF ~HasKey(data, "refresh_token")
    THEN [fields |-> c1, out |-> Raised("KeyError", "refresh_token", 200)]
    ELSE LET c2 == [c1 EXCEPT !.refresh_token = Some(data.refresh_token)] IN
    IF ~HasKey(data, "created_at")
    THEN [fields |-> c2, out |-> Raised("KeyError", "created_at", 200)]
    ELSE LET created_at == FromTimestamp(data.created_at) IN
    IF ~HasKey(data, "expires_in")
    THEN [fields |-> c2, out |-> Raised("KeyError", "expires_in", 200)]
    ELSE [fields |-> [c2 EXCEPT !.token_expires =
                         Some(DatetimeAdd(created_at, Timedelta(data.expires_in)))],
          out |-> Returned(None)]

SetFields(f) ==
    /\ token' = f.token
    /\ refresh_token' = f.refresh_token
    /\ token_expires' = f.token_expires

----------------------------------------------------------------------------
(* Models: construction *)

\* bool(x) of a JSON value.
Truthy(j) ==
    CASE j.t = "null" -> FALSE
      [] j.t = "str" -> j.s # ""
      [] j.t = "int" -> j.n # 0
      [] j.t = "bool" -> j.b
      [] j.t = "list" -> Len(j.l) > 0
      [] j.t = "map" -> DOMAIN j.m # {}

\* payload.get(key, default) of a dict payload.
DictGet(payload, key, default) == IF HasKey(payload.m, key) THEN payload.m[key] ELSE default

NoObject == [cls |-> "none"]

\* Anime.__init__(self, payload)
AnimeInit(payload) ==
    LET data == DictGet(payload, "data", JMap(EmptyMap)) IN
    [cls |-> "Anime",
     payload |-> IF Truthy(data) THEN data ELSE payload,
     included |-> DictGet(payload, "included", JList(<<>>))]

\* Episode.__init__(self, payload)
EpisodeInit(payload) == [cls |-> "Episode", payload |-> payload]

\* Genre.__init__(self, payload)
GenreInit(payload) == [cls |-> "Genre", payload |-> payload]

\* The keyword parameters Anime.__init__ declares besides self.
AnimeInitParams == {"payload"}

\* Anime(payload, **kwargs): a keyword __init__ does not declare is a TypeError;
\* a payload that is no dict has no .get (AttributeError).
AnimeNew(payload, kwargs) ==
    IF ~(kwargs \subseteq AnimeInitParams)
    THEN [exc |-> "TypeError", obj |-> NoObject]
    ELSE IF payload.t # "map" THEN [exc |-> "AttributeError", obj |-> NoObject]
    ELSE [exc |-> "none", obj |-> AnimeInit(payload)]

\* [New(x) for x in items]: the models built, or the first exception raised.
RECURSIVE Comprehension(_, _)
Comprehension(items, kwargs) ==
    IF Len(items) = 0 THEN [exc |-> "none", objs |-> <<>>]
    ELSE LET first == AnimeNew(Head(items), kwargs) IN
         IF first.exc # "none" THEN [exc |-> first.exc, objs |-> <<>>]
         ELSE LET rest == Comprehension(Tail(items), kwargs) IN
              IF rest.exc # "none" THEN rest
              ELSE [exc |-> "none", objs |-> <<first.obj>> \o rest.objs]

----------------------------------------------------------------------------
(* Models: accessors *)

\* What evaluating an expression gives: a value, or the exception it raises.
Ok(v) == [exc |-> "none", value |-> v]
Exc(e) == [exc |-> e, value |-> JNull]

\* `except excs: return default` around the evaluation r.
Catch(r, excs, default) == IF r.exc \in excs THEN Ok(default) ELSE r

\* j[key] for a string key: KeyError on a dict that lacks it, TypeError on
\* None, a number, a string or a list.
Subscript(j, key) ==
    IF j.t = "map"
    THEN IF HasKey(j.m, key) THEN Ok(j.m[key]) ELSE Exc("KeyError")
    ELSE Exc("TypeError")

\* j.get(key, default): only a dict has .get
MethodGet(j, key, default) ==
    IF j.t = "map"
    THEN Ok(IF HasKey(j.m, key) THEN j.m[key] ELSE default)
    ELSE Exc("AttributeError")

\* self._payload["attributes"][key]
Attr(o, key) ==
    LET a == Subscript(o.payload, "attributes") IN
    IF a.exc # "none" THEN a ELSE Subscript(a.value, key)

\* Strings the parsers accept.
IsoStrings == {"2020-01-31T09:30:00.000Z", "2020-01-31"}
DateStrings == {"2020-01-31"}
MaxNumber == 9

\* len(j), where j has one
Size(j) == IF j.t = "map" THEN Cardinality(DOMAIN j.m) ELSE Len(j.l)

\* dateutil isoparse(j): len() of the argument comes first (TypeError without
\* one), then fewer than 4 characters or a malformed string is a ValueError.
Isoparse(j) ==
    CASE j.t = "str" -> IF j.s \in IsoStrings THEN Ok([t |-> "datetime", d |-> j.s])
                        ELSE Exc("ValueError")
      [] j.t \in {"map", "list"} -> IF Size(j) < 4 THEN Exc("ValueError") ELSE Exc("TypeError")
      [] OTHER -> Exc("TypeError")

\* datetime.strptime(j, "%Y-%m-%d")
Strptime(j) ==
    CASE j.t = "str" -> IF j.s \in DateStrings THEN Ok([t |-> "datetime", d |-> j.s])
                        ELSE Exc("ValueError")
      [] OTHER -> Exc("TypeError")

IsNumeral(str) == \E n \in 0..MaxNumber : ToString(n) = str
ParseNumeral(str) == CHOOSE n \in 0..MaxNumber : ToString(n) = str

\* int(j)
IntOf(j) ==
    CASE j.t = "int" -> Ok(j)
      [] j.t = "bool" -> Ok(JInt(IF j.b THEN 1 ELSE 0))
      [] j.t = "str" -> IF IsNumeral(j.s) THEN Ok(JInt(ParseNumeral(j.s))) ELSE Exc("ValueError")
      [] OTHER -> Exc("TypeError")

\* float(j)
FloatOf(j) ==
    CASE j.t = "int" -> Ok([t |-> "float", f |-> j.n])
      [] j.t = "bool" -> Ok([t |-> "float", f |-> IF j.b THEN 1 ELSE 0])
      [] j.t = "str" -> IF IsNumeral(j.s) THEN Ok([t |-> "float", f |-> ParseNumeral(j.s)])
                        ELSE Exc("ValueError")
      [] OTHER -> Exc("TypeError")

\* id: self._payload.get("id", "")
ReadId(o) == MethodGet(o.payload, "id", JStr(""))

\* raw: self._payload
ReadRaw(o) == Ok(o.payload)

\* try: return self._payload["attributes"][key]  except KeyError: return default
ReadPlain(o, key, default) == Catch(Attr(o, key), {"KeyError"}, default)

\* try: return isoparse(...[key])  except (KeyError, TypeError): return None
ReadIso(o, key) ==
    LET a == Attr(o, key) IN
    Catch(IF a.exc # "none" THEN a ELSE Isoparse(a.value), {"KeyError", "TypeError"}, JNull)

\* try: return datetime.strptime(...[key], "%Y-%m-%d")  except (KeyError, TypeError): return None
ReadDate(o, key) ==
    LET a == Attr(o, key) IN
    Catch(IF a.exc # "none" THEN a ELSE Strptime(a.value), {"KeyError", "TypeError"}, JNull)

\* try: return int(...[key])  except (KeyError, TypeError): return None
ReadInt(o, key) ==
    LET a == Attr(o, key) IN
    Catch(IF a.exc # "none" THEN a ELSE IntOf(a.value), {"KeyError", "TypeError"}, JNull)

\* try: return float(...[key])  except (KeyError, TypeError): return None
ReadFloat(o, key) ==
    LET a == Attr(o, key) IN
    Catch(IF a.exc # "none" THEN a ELSE FloatOf(a.value), {"KeyError", "TypeError"}, JNull)

\* try: return ...["titles"].get(locale)  except KeyError: return None
ReadLocale(o, locale) ==
    LET a == Attr(o, "titles") IN
    Catch(IF a.exc # "none" THEN a ELSE MethodGet(a.value, locale, JNull), {"KeyError"}, JNull)

\* Anime.canonical_title
AnimeCanonicalTitle(o) == ReadPlain(o, "canonicalTitle", JNull)

TITLE_PRIORITY == <<"en", "en_jp", "ja_jp">>

\* The loop of Anime.title over the keys left: the first truthy titles.get(key).
RECURSIVE TitleLoop(_, _, _)
TitleLoop(o, titles, keys) ==
    IF Len(keys) = 0 THEN AnimeCanonicalTitle(o)
    ELSE LET g == MethodGet(titles, Head(keys), JNull) IN
         IF g.exc # "none" THEN g
         ELSE IF Truthy(g.value) THEN Subscript(titles, Head(keys))
         ELSE TitleLoop(o, titles, Tail(keys))

\* Anime.title
AnimeTitle(o) ==
    LET a == Attr(o, "titles") IN
    Catch(IF a.exc # "none" THEN a ELSE TitleLoop(o, a.value, TITLE_PRIORITY), {"KeyError"}, JNull)

\* Anime.poster_image / cover_image:
\* try: return ...[key].get(_type)  except AttributeError: return None
ReadImage(o, key, type) ==
    LET a == Attr(o, key) IN
    Catch(IF a.exc # "none" THEN a ELSE MethodGet(a.value, type, JNull), {"AttributeError"}, JNull)

\* self._included_payload or []
IncludedOrEmpty(o) == IF Truthy(o.included) THEN o.included ELSE JList(<<>>)

\* [New(item) for item in items if item["type"] == kind], items a list
RECURSIVE IncludedOfType(_, _, _)
IncludedOfType(items, kind, cls) ==
    IF Len(items) = 0 THEN Ok(<<>>)
    ELSE LET ty == Subscript(Head(items), "type") IN
         IF ty.exc # "none" THEN ty
         ELSE LET rest == IncludedOfType(Tail(items), kind, cls) IN
              IF rest.exc # "none" THEN rest
              ELSE IF ty.value = JStr(kind)
              THEN Ok(<<[cls |-> cls, payload |-> Head(items)]>> \o rest.value)
              ELSE rest

\* The comprehension over `included`: a number is not iterable, and the items
\* of a str or of a dict are strings, whose ["type"] is a TypeError.
IncludedModels(o, kind, cls) ==
    LET included == IncludedOrEmpty(o) IN
    IF included.t = "list"
    THEN LET r == IncludedOfType(included.l, kind, cls) IN
         IF r.exc # "none" THEN r ELSE Ok(JList(r.value))
    ELSE Exc("TypeError")

\* Anime.episodes
AnimeEpisodes(o) == Catch(IncludedModels(o, "episodes", "Episode"), {"KeyError", "TypeError"}, JList(<<>>))

\* Anime.genres
AnimeGenres(o) == IncludedModels(o, "genres", "Genre")

\* Episode.number
EpisodeNumber(o) == ReadInt(o, "number")

\* f"Episode {self.number}" if self.number else None
EpisodeFallback(o) ==
    LET n == EpisodeNumber(o) IN
    IF n.exc # "none" THEN n
    ELSE IF Truthy(n.value) THEN Ok(JStr("Episode " \o ToString(n.value.n)))
    ELSE Ok(JNull)

\* Episode.english_title / japanese_title / romaji_title
EpisodeLocale(o, locale) ==
    LET a == Attr(o, "titles") IN
    LET r == IF a.exc # "none" THEN a ELSE MethodGet(a.value, locale, JNull) IN
    IF r.exc = "KeyError" THEN EpisodeFallback(o) ELSE r

\* Episode.canonical_title
EpisodeCanonicalTitle(o) ==
    LET r == Attr(o, "canonicalTitle") IN
    IF r.exc = "KeyError" THEN EpisodeFallback(o) ELSE r

\* Episode.thumbnail
EpisodeThumbnail(o) ==
    LET a == Attr(o, "thumbnail") IN
    Catch(IF a.exc # "none" THEN a ELSE Subscript(a.value, "original"),
          {"KeyError", "TypeError"}, JNull)

----------------------------------------------------------------------------
(* Models: the classes *)

AnimeAccessors ==
    {"id", "created_at", "updated_at", "slug", "synopsis", "title", "japanese_title",
     "romaji_title", "canonical_title", "abbreviated_titles", "average_rating",
     "rating_frequencies", "user_count", "favorites_count", "start_date", "end_date",
     "popularity_rank", "rating_rank", "age_rating", "age_rating_guide", "subtype", "status",
     "tba", "poster_image", "cover_image", "episodes", "episode_count", "episode_length",
     "total_length", "yt_video_id", "nsfw", "raw", "genres"}

EpisodeAccessors ==
    {"id", "created_at", "updated_at", "synopsis", "description", "english_title",
     "japanese_title", "romaji_title", "canonical_title", "season", "number",
     "relative_number", "air_date", "length", "thumbnail", "raw"}

GenreAccessors == {"id", "name", "slug", "raw"}

\* class Anime: the property `name` (the method, for the two images) of o
AnimeRead(o, name, type) ==
    CASE name = "id" -> ReadId(o)
      [] name = "created_at" -> ReadIso(o, "createdAt")
      [] name = "updated_at" -> ReadIso(o, "updatedAt")
      [] name = "slug" -> ReadPlain(o, "slug", JNull)
      [] name = "synopsis" -> ReadPlain(o, "synopsis", JNull)
      [] name = "title" -> AnimeTitle(o)
      [] name = "japanese_title" -> ReadLocale(o, "en_jp")
      [] name = "romaji_title" -> ReadLocale(o, "ja_jp")
      [] name = "canonical_title" -> AnimeCanonicalTitle(o)
      [] name = "abbreviated_titles" -> ReadPlain(o, "abbreviatedTitles", JList(<<>>))
      [] name = "average_rating" -> ReadFloat(o, "averageRating")
      [] name = "rating_frequencies" -> ReadPlain(o, "ratingFrequencies", JNull)
      [] name = "user_count" -> ReadInt(o, "userCount")
      [] name = "favorites_count" -> ReadInt(o, "favoritesCount")
      [] name = "start_date" -> ReadDate(o, "startDate")
      [] name = "end_date" -> ReadDate(o, "endDate")
      [] name = "popularity_rank" -> ReadInt(o, "popularityRank")
      [] name = "rating_rank" -> ReadInt(o, "ratingRank")
      [] name = "age_rating" -> ReadPlain(o, "ageRating", JNull)
      [] name = "age_rating_guide" -> ReadPlain(o, "ageRatingGuide", JNull)
      [] name = "subtype" -> ReadPlain(o, "subtype", JNull)
      [] name = "status" -> ReadPlain(o, "status", JNull)
      [] name = "tba" -> ReadPlain(o, "tba", JNull)
      [] name = "poster_image" -> ReadImage(o, "posterImage", type)
      [] name = "cover_image" -> ReadImage(o, "coverImage", type)
      [] name = "episodes" -> AnimeEpisodes(o)
      [] name = "episode_count" -> ReadInt(o, "episodeCount")
      [] name = "episode_length" -> ReadInt(o, "episodeLength")
      [] name = "total_length" -> ReadInt(o, "totalLength")
      [] name = "yt_video_id" -> ReadPlain(o, "youtubeVideoId", JNull)
      [] name = "nsfw" -> ReadPlain(o, "nsfw", JBool(FALSE))
      [] name = "raw" -> ReadRaw(o)
      [] name = "genres" -> AnimeGenres(o)

\* class Episode
EpisodeRead(o, name) ==
    CASE name = "id" -> ReadId(o)
      [] name = "created_at" -> ReadIso(o, "createdAt")
      [] name = "updated_at" -> ReadIso(o, "updatedAt")
      [] name = "synopsis" -> ReadPlain(o, "synopsis", JNull)
      [] name = "description" -> ReadPlain(o, "description", JNull)
      [] name = "english_title" -> EpisodeLocale(o, "en_us")
      [] name = "japanese_title" -> EpisodeLocale(o, "en_jp")
      [] name = "romaji_title" -> EpisodeLocale(o, "ja_jp")
      [] name = "canonical_title" -> EpisodeCanonicalTitle(o)
      [] name = "season" -> ReadInt(o, "seasonNumber")
      [] name = "number" -> EpisodeNumber(o)
      [] name = "relative_number" -> ReadInt(o, "relativeNumber")
      [] name = "air_date" -> ReadIso(o, "airdate")
      [] name = "length" -> ReadInt(o, "length")
      [] name = "thumbnail" -> EpisodeThumbnail(o)
      [] name = "raw" -> ReadRaw(o)

\* class Genre
GenreRead(o, name) ==
    CASE name = "id" -> ReadId(o)
      [] name = "name" -> ReadPlain(o, "name", JNull)
      [] name = "slug" -> ReadPlain(o, "slug", JNull)
      [] name = "raw" -> ReadRaw(o)

----------------------------------------------------------------------------
(* Models: the payloads tried *)

\* What an attribute can hold, by the kind of value the API documents for it:
\* null, a value of another type, a malformed and a well-formed value.
Samples(kind) ==
    CASE kind = "str" -> {JNull, JInt(7), JStr("abc")}
      [] kind = "iso" -> {JNull, JInt(7), JStr("soon"), JStr("2020-01-31T09:30:00.000Z")}
      [] kind = "date" -> {JNull, JInt(7), JStr("soon"), JStr("2020-01-31")}
      [] kind = "int" -> {JNull, JMap(EmptyMap), JStr("abc"), JStr("5"), JInt(5)}
      [] kind = "image" -> {JNull, JStr("x"), JMap([original |-> JStr("https://img/o.jpg")])}
      [] kind = "list" -> {JNull, JStr("x"), JList(<<JStr("AoT")>>)}
      [] kind = "bool" -> {JNull, JStr("x"), JBool(TRUE)}
      [] kind = "map" -> {JNull, JStr("x"), JMap([r2 |-> JStr("10")])}

AnimeKeys ==
    {<<"createdAt", "iso">>, <<"updatedAt", "iso">>, <<"slug", "str">>, <<"synopsis", "str">>,
     <<"canonicalTitle", "str">>, <<"abbreviatedTitles", "list">>, <<"averageRating", "int">>,
     <<"ratingFrequencies", "map">>, <<"userCount", "int">>, <<"favoritesCount", "int">>,
     <<"startDate", "date">>, <<"endDate", "date">>, <<"popularityRank", "int">>,
     <<"ratingRank", "int">>, <<"ageRating", "str">>, <<"ageRatingGuide", "str">>,
     <<"subtype", "str">>, <<"status", "str">>, <<"tba", "str">>, <<"posterImage", "image">>,
     <<"coverImage", "image">>, <<"episodeCount", "int">>, <<"episodeLength", "int">>,
     <<"totalLength", "int">>, <<"youtubeVideoId", "str">>, <<"nsfw", "bool">>,
     <<"titles", "map">>}

EpisodeKeys ==
    {<<"createdAt", "iso">>, <<"updatedAt", "iso">>, <<"synopsis", "str">>,
     <<"description", "str">>, <<"seasonNumber", "int">>, <<"relativeNumber", "int">>,
     <<"airdate", "iso">>, <<"length", "int">>, <<"thumbnail", "image">>}

GenreKeys == {<<"name", "str">>, <<"slug", "str">>}

\* The attribute maps holding one key.
SingleKeyMaps(keys) == UNION {{(k[1] :> v) : v \in Samples(k[2])} : k \in keys}

\* d with key k set to v, or d when v is Absent.
Absent == [t |-> "absent"]
With(d, k, v) == IF v = Absent THEN d ELSE Merge(d, (k :> v))

\* Anime attribute maps around the title: each locale absent, empty or set,
\* and the canonical title absent, null or set.
AnimeTitleMaps ==
    {With(With(EmptyMap, "titles", JMap(With(With(With(EmptyMap, "en", en), "en_jp", en_jp), "ja_jp", ja_jp))),
          "canonicalTitle", c) :
        en \in {Absent, JStr(""), JStr("En")}, en_jp \in {Absent, JStr(""), JStr("Foo")},
        ja_jp \in {Absent, JStr(""), JStr("Bar")}, c \in {Absent, JNull, JStr("Baz")}}
      \cup {With(EmptyMap, "canonicalTitle", c) : c \in {Absent, JNull, JStr("Baz")}}

\* Episode attribute maps around the title: the titles map absent, null, empty
\* or holding a locale; the canonical title absent, null or set; the number
\* absent, null, 0, n, a numeral or a word.
EpisodeTitleMaps ==
    {With(With(With(EmptyMap, "titles", ts), "canonicalTitle", c), "number", n) :
        ts \in {Absent, JNull, JMap(EmptyMap), JMap([en_us |-> JStr("Pilot")]),
                JMap([en_jp |-> JStr("Pairotto"), ja_jp |-> JStr("Pa")])},
        c \in {Absent, JNull, JStr("The Pilot")},
        n \in {Absent, JNull, JInt(0), JInt(5), JStr("5"), JStr("abc")}}

AttributeMaps(cls) ==
    CASE cls = "Anime" -> SingleKeyMaps(AnimeKeys) \cup AnimeTitleMaps
      [] cls = "Episode" -> SingleKeyMaps(EpisodeKeys) \cup EpisodeTitleMaps
      [] cls = "Genre" -> {EmptyMap} \cup SingleKeyMaps(GenreKeys)

\* A resource object: {id, type, attributes?}
ResourceObject(cls, attributes) ==
    With([id |-> JStr("7"), type |-> JStr(cls)], "attributes", attributes)

ResourceObjects(cls) ==
    {JMap(ResourceObject(cls, a)) :
        a \in {Absent, JNull, JStr("x")} \cup {JMap(m) : m \in AttributeMaps(cls)}}

\* What `included` can hold: resources of both kinds, an entry without a
\* type, an entry that is no dict, nothing, null, a number.
IncludedSamples ==
    {Absent, JNull, JInt(3), JList(<<>>),
     JList(<<JMap([id |-> JStr("1"), type |-> JStr("episodes")]),
             JMap([id |-> JStr("2"), type |-> JStr("genres")])>>),
     JList(<<JMap([id |-> JStr("3")])>>),
     JList(<<JStr("x")>>)}

\* A response envelope {data?, included?} around a resource object, or the
\* resource object itself carrying `included`.
Envelopes(cls) ==
    LET primary == JMap(ResourceObject(cls, JMap([slug |-> JStr("abc")]))) IN
    {JMap(With(With(EmptyMap, "data", d), "included", inc)) :
        d \in {primary, JMap(EmptyMap), JNull}, inc \in IncludedSamples}
      \cup {JMap(With(primary.m, "included", inc)) : inc \in IncludedSamples}

Payloads(cls) == {JMap(EmptyMap)} \cup ResourceObjects(cls) \cup Envelopes(cls)

ImageTypes == {"original", "tiny"}

----------------------------------------------------------------------------
(* Client: the public coroutines, from the return of _get on *)

\* get_anime: Anime(payload=data["data"], client=self)
GetAnimeBody(data) ==
    IF ~HasKey(data, "data") THEN Raised("KeyError", "data", 200)
    ELSE LET a == AnimeNew(data.data, {"payload", "client"}) IN
         IF a.exc # "none" THEN Raised(a.exc, "__init__", 200)
         ELSE Returned(Some(a.obj))

\* get_anime_genres: [Genre(genre) for genre in data["data"]]
GetAnimeGenresBody(data) ==
    IF ~HasKey(data, "data") THEN Raised("KeyError", "data", 200)
    ELSE Returned(Some([i \in 1..Len(data.data) |-> GenreInit(data.data[i])]))

\* search_anime: [] for no data, else Anime(anime, client=self) for each element
SearchAnimeBody(data) ==
    IF ~HasKey(data, "data") THEN Raised("KeyError", "data", 200)
    ELSE IF Len(data.data) = 0 THEN Returned(Some(<<>>))
    ELSE IF Len(data.data) = 1
    THEN LET a == AnimeNew(data.data[1], {"client"}) IN
         IF a.exc # "none" THEN Raised(a.exc, "__init__", 200)
         ELSE Returned(Some(<<a.obj>>))
    ELSE LET c == Comprehension(data.data, {"client"}) IN
         IF c.exc # "none" THEN Raised(c.exc, "__init__", 200)
         ELSE Returned(Some(c.objs))

\* trending_anime: [] for no data, else Anime(anime, client=self) for each element
TrendingAnimeBody(data) ==
    IF ~HasKey(data, "data") THEN Raised("KeyError", "data", 200)
    ELSE IF Len(data.data) = 0 THEN Returned(Some(<<>>))
    ELSE LET c == Comprehension(data.data, {"client"}) IN
         IF c.exc # "none" THEN Raised(c.exc, "__init__", 200)
         ELSE Returned(Some(c.objs))

\* NsfwHeaders that sends the token whenever the client holds one.
NsfwHeadersWhenAuthenticated(include_nsfw) ==
    IF include_nsfw \/ token # None THEN ("Authorization" :> ("Bearer " \o Str(token)))
    ELSE EmptyMap

\* headers = {"Authorization": f"Bearer {self._token}"} if include_nsfw else {}
NsfwHeaders(include_nsfw) ==
    IF include_nsfw THEN ("Authorization" :> ("Bearer " \o Str(token))) ELSE EmptyMap

----------------------------------------------------------------------------
(* Client: actions *)

TokenUnchanged == UNCHANGED <<token, refresh_token, token_expires>>

\* session.get/post on a closed session: aiohttp raises RuntimeError at once.
SessionIsClosed(op) ==
    /\ session_closed
    /\ last' = Ended(op, NoResponse, Raised("RuntimeError", "Session is closed", 0))
    /\ UNCHANGED tasks

\* The coroutine of task t reaches its await with the request on the wire.
Send(t, req) ==
    /\ ~session_closed
    /\ tasks' = [tasks EXCEPT ![t] = Awaiting(req.op)]
    /\ last' = req

Start(t, req) ==
    /\ run = "running"
    /\ tasks[t] = Idle
    /\ SessionIsClosed(req.op) \/ Send(t, req)
    /\ TokenUnchanged
    /\ UNCHANGED <<session_closed, now, run, modelVars>>

\* The call of task t ends with `out` after response r.
Finish(t, r, out) ==
    /\ tasks' = [tasks EXCEPT ![t] = Idle]
    /\ last' = Ended(tasks[t].op, r, out)
    /\ UNCHANGED <<session_closed, now, run, modelVars>>

\* Client() is constructed without client_id and client_secret.
CLIENT_ID == None
CLIENT_SECRET == None

\* __add_client_info: both are added to the body when both are set.
AddClientInfo(data) ==
    IF CLIENT_ID \notin {None, Some("")} /\ CLIENT_SECRET \notin {None, Some("")}
    THEN Merge(data, [client_id |-> CLIENT_ID, client_secret |-> CLIENT_SECRET])
    ELSE data

\* authenticate, up to the await in _post
Authenticate(t) ==
    Start(t, Request("authenticate", NoArgs, "POST", AUTH_BASE \o "/token", PostHeaders(EmptyMap),
                     AddClientInfo([grant_type |-> "password", username |-> "user",
                                    password |-> "pass"])))

\* refresh_token, up to the await in _post
RefreshToken(t) ==
    Start(t, Request("refresh_token", NoArgs, "POST", AUTH_BASE \o "/token",
                     PostHeaders("Authorization" :> ("Bearer " \o Str(token))),
                     AddClientInfo([grant_type |-> "refresh_token",
                                    refresh_token |-> refresh_token])))

\* authenticate / refresh_token, from the response on
TokenResume(t, op) ==
    /\ tasks[t] = Awaiting(op)
    /\ \E r \in PostResponses :
         LET p == Post(r) IN
         IF p.exc # "none"
         THEN TokenUnchanged /\ Finish(t, r, p)
         ELSE LET s == StoreToken(Fields, p.value[1]) IN
              SetFields(s.fields) /\ Finish(t, r, s.out)

AuthenticateResume(t) == TokenResume(t, "authenticate")

RefreshTokenResume(t) == TokenResume(t, "refresh_token")

\* get_anime that exchanges the refresh token by itself before it fetches.
GetAnimeWithAutomaticRefresh(t, anime_id, include_nsfw) ==
    Start(t, Request("get_anime", [include_nsfw |-> include_nsfw], "POST", AUTH_BASE \o "/token",
                     PostHeaders("Authorization" :> ("Bearer " \o Str(token))),
                     AddClientInfo([grant_type |-> "refresh_token",
                                    refresh_token |-> refresh_token])))

\* get_anime, up to the await in _get
GetAnime(t, anime_id, include_nsfw) ==
    Start(t, Request("get_anime", [include_nsfw |-> include_nsfw], "GET",
                     BASE \o "/anime/" \o ToString(anime_id),
                     GetHeaders(NsfwHeaders(include_nsfw)), EmptyMap))

GetAnimeGenres(t, anime_id, include_nsfw) ==
    Start(t, Request("get_anime_genres", [include_nsfw |-> include_nsfw], "GET",
                     BASE \o "/anime/" \o ToString(anime_id) \o "/genres",
                     GetHeaders(NsfwHeaders(include_nsfw)), EmptyMap))

SearchAnime(t, include_nsfw) ==
    Start(t, Request("search_anime", [include_nsfw |-> include_nsfw], "GET", BASE \o "/anime",
                     GetHeaders(NsfwHeaders(include_nsfw)), EmptyMap))

TrendingAnime(t) ==
    Start(t, Request("trending_anime", NoArgs, "GET", BASE \o "/trending/anime",
                     GetHeaders(EmptyMap), EmptyMap))

\* The rest of a GET coroutine once _get has its response.
GetOutcome(op, r) ==
    LET g == Get(r) IN
    IF g.exc # "none" THEN g
    ELSE CASE op = "get_anime" -> GetAnimeBody(g.value[1])
           [] op = "get_anime_genres" -> GetAnimeGenresBody(g.value[1])
           [] op = "search_anime" -> SearchAnimeBody(g.value[1])
           [] op = "trending_anime" -> TrendingAnimeBody(g.value[1])

GetResume(t, op) ==
    /\ tasks[t] = Awaiting(op)
    /\ \E r \in GetResponses(op) : Finish(t, r, GetOutcome(op, r))
    /\ TokenUnchanged

GetAnimeResume(t) == GetResume(t, "get_anime")

GetAnimeGenresResume(t) == GetResume(t, "get_anime_genres")

SearchAnimeResume(t) == GetResume(t, "search_anime")

TrendingAnimeResume(t) == GetResume(t, "trending_anime")

\* The awaited request of task t fails in the transport, or the task is
\* cancelled: the exception leaves the coroutine at its await.
Interrupt(t, exc) ==
    /\ tasks[t].pc = "await"
    /\ Finish(t, NoResponse, Raised(exc, "", 0))
    /\ TokenUnchanged

\* close(): self._session.close()
Close ==
    /\ run = "running"
    /\ session_closed' = TRUE
    /\ last' = Ended("close", NoResponse, Returned(None))
    /\ TokenUnchanged
    /\ UNCHANGED <<tasks, now, run, modelVars>>

\* Time passes.
Tick ==
    /\ now = ClockEarly
    /\ now' = ClockLate
    /\ UNCHANGED <<token, refresh_token, token_expires, session_closed, tasks, last, run, modelVars>>

\* The caller's run ends, by a return, by an exception a call raised, or by
\* cancellation; Client has no __aexit__, __del__ or finalizer, so nothing runs.
EndRun(how) ==
    /\ run = "running"
    /\ \A t \in Tasks : tasks[t] = Idle
    /\ how = "raised" => (last.ev = "ended" /\ last.out.exc # "none")
    /\ run' = how
    /\ UNCHANGED <<token, refresh_token, token_expires, session_closed, tasks, last, now, modelVars>>

NoEvent == [ev |-> "none"]
NoRead == [name |-> "none"]

Init ==
    /\ token = None
    /\ refresh_token = None
    /\ token_expires = None
    /\ session_closed = FALSE
    /\ tasks = [t \in Tasks |-> Idle]
    /\ last = NoEvent
    /\ now = ClockEarly
    /\ run = "running"
    /\ given = JNull
    /\ obj = NoObject
    /\ read = NoRead

Next ==
    \/ \E t \in Tasks : Authenticate(t)
    \/ \E t \in Tasks : AuthenticateResume(t)
    \/ \E t \in Tasks : RefreshToken(t)
    \/ \E t \in Tasks : RefreshTokenResume(t)
    \/ \E t \in Tasks, i \in AnimeIds, n \in BOOLEAN : GetAnime(t, i, n)
    \/ \E t \in Tasks : GetAnimeResume(t)
    \/ \E t \in Tasks, i \in AnimeIds, n \in BOOLEAN : GetAnimeGenres(t, i, n)
    \/ \E t \in Tasks : GetAnimeGenresResume(t)
    \/ \E t \in Tasks, n \in BOOLEAN : SearchAnime(t, n)
    \/ \E t \in Tasks : SearchAnimeResume(t)
    \/ \E t \in Tasks : TrendingAnime(t)
    \/ \E t \in Tasks : TrendingAnimeResume(t)
    \/ \E t \in Tasks, e \in {"CancelledError", "ClientError"} : Interrupt(t, e)
    \/ Close
    \/ Tick
    \/ \E how \in {"returned", "raised", "cancelled"} : EndRun(how)

Spec == Init /\ [][Next]_vars

----------------------------------------------------------------------------
(* Models: actions *)

\* Anime(payload)
NewAnime(payload) ==
    /\ obj = NoObject
    /\ given' = payload
    /\ obj' = AnimeNew(payload, {"payload"}).obj
    /\ UNCHANGED <<read, clientVars>>

\* Episode(payload)
NewEpisode(payload) ==
    /\ obj = NoObject
    /\ given' = payload
    /\ obj' = EpisodeInit(payload)
    /\ UNCHANGED <<read, clientVars>>

\* Genre(payload)
NewGenre(payload) ==
    /\ obj = NoObject
    /\ given' = payload
    /\ obj' = GenreInit(payload)
    /\ UNCHANGED <<read, clientVars>>

\* The caller reads one accessor of the model; the model is not assigned to.
Reading(name, type, result) ==
    /\ read' = [cls |-> obj.cls, name |-> name, type |-> type, exc |-> result.exc,
                value |-> result.value]
    /\ UNCHANGED <<given, obj, clientVars>>

ReadAnime(name, type) ==
    /\ obj.cls = "Anime"
    /\ name \in {"poster_image", "cover_image"} \/ type = "original"
    /\ Reading(name, type, AnimeRead(obj, name, type))

ReadEpisode(name) ==
    /\ obj.cls = "Episode"
    /\ Reading(name, "", EpisodeRead(obj, name))

ReadGenre(name) ==
    /\ obj.cls = "Genre"
    /\ Reading(name, "", GenreRead(obj, name))

ModelNext ==
    \/ \E p \in Payloads("Anime") : NewAnime(p)
    \/ \E p \in Payloads("Episode") : NewEpisode(p)
    \/ \E p \in Payloads("Genre") : NewGenre(p)
    \/ \E name \in AnimeAccessors, type \in ImageTypes : ReadAnime(name, type)
    \/ \E name \in EpisodeAccessors : ReadEpisode(name)
    \/ \E name \in GenreAccessors : ReadGenre(name)

ModelSpec == Init /\ [][ModelNext]_vars

----------------------------------------------------------------------------
(* Properties *)

AuthOps == {"authenticate", "refresh_token"}
GetOps == {"get_anime", "get_anime_genres", "search_anime", "trending_anime"}
NsfwOps == {"get_anime", "get_anime_genres", "search_anime"}

\* A call of one of `ops` has just ended, having received a response.
JustEnded(ops) == last.ev = "ended" /\ last.op \in ops /\ last.resp.status # 0

\* C1: when authenticate or refresh_token has received a status-200 token
\* response with all four fields, the call returns and the stored access token
\* and refresh token are the response's, and the stored expiry is the local
\* datetime of created_at + expires_in seconds, whatever was stored before.
C1_TokenStored ==
    (JustEnded(AuthOps) /\ last.resp.status = 200 /\ DOMAIN last.resp.body = TokenKeys)
    => /\ last.out.exc = "none"
       /\ token = Some(last.resp.body.access_token)
       /\ refresh_token = Some(last.resp.body.refresh_token)
       /\ token_expires =
            Some([wall |-> last.resp.body.created_at + last.resp.body.expires_in + LocalUtcOffset])

\* refresh_token has replaced stored values by those of its own response.
C1_Witness ==
    /\ JustEnded({"refresh_token"})
    /\ last.resp = [status |-> 200, body |-> TokenB]
    /\ token = Some("tokB")
    /\ refresh_token = Some("refB")
    /\ token_expires = Some([wall |-> TokenB.created_at + TokenB.expires_in + LocalUtcOffset])

\* C2: the stored access token, refresh token and expiry change only in the
\* step that ends a call of authenticate or refresh_token, and a POST is put on
\* the wire only by those two: no GET, close, clock tick or failure does either.
C2_NoAutomaticRefresh ==
    [][/\ (<<token, refresh_token, token_expires>>' # <<token, refresh_token, token_expires>>)
          => /\ last'.ev = "ended"
             /\ last'.op \in AuthOps
             /\ \E t \in Tasks : tasks[t] = Awaiting(last'.op) /\ tasks'[t] = Idle
       /\ (last'.ev = "request" /\ last'.method = "POST") => last'.op \in AuthOps]_vars

\* A GET has just failed with 401 while the stored expiry lies in the past,
\* and the stored token is still there.
C2_Witness ==
    /\ JustEnded({"get_anime"})
    /\ last.resp.status = 401
    /\ last.out.exc = "Unauthorized"
    /\ token = Some("tokA")
    /\ refresh_token = Some("refA")
    /\ token_expires # None
    /\ token_expires[1].wall < now + LocalUtcOffset

\* C3: the request of get_anime, get_anime_genres and search_anime carries an
\* Authorization header exactly when include_nsfw was passed as true, and the
\* header is "Bearer " followed by the stored access token (by the text None
\* when no token is stored).
C3_BearerOnlyWhenNsfw ==
    (last.ev = "request" /\ last.op \in NsfwOps)
    => /\ HasKey(last.headers, "Authorization") <=> last.args.include_nsfw
       /\ last.args.include_nsfw
          => last.headers["Authorization"]
               = "Bearer " \o (IF token = None THEN "None" ELSE token[1])

\* An authenticated client has sent search_anime with include_nsfw.
C3_Witness ==
    /\ last.ev = "request"
    /\ last.op = "search_anime"
    /\ last.args.include_nsfw
    /\ token = Some("tokA")
    /\ last.headers["Authorization"] = "Bearer tokA"

\* C4: a resource GET answered with the resource error envelope
\* {errors: [{detail}]} raises by its status alone: 400 BadRequest and 404
\* NotFound with errors[0].detail, 401 Unauthorized with the server's message,
\* 403 Forbidden, any other status HTTPException with the status and raw body.
C4_GetErrorByStatus ==
    (JustEnded(GetOps) /\ last.resp.status # 200 /\ last.resp.body = ResourceError)
    => CASE last.resp.status = 400 ->
              last.out.exc = "BadRequest" /\ last.out.msg = ResourceError.errors[1].detail
         [] last.resp.status = 401 ->
              last.out.exc = "Unauthorized" /\ last.out.msg = ResourceError.errors[1].detail
         [] last.resp.status = 403 -> last.out.exc = "Forbidden"
         [] last.resp.status = 404 ->
              last.out.exc = "NotFound" /\ last.out.msg = ResourceError.errors[1].detail
         [] OTHER ->
              /\ last.out.exc = "HTTPException"
              /\ last.out.status = last.resp.status
              /\ last.out.msg = "{\"errors\": [{\"detail\": \"Not found\"}]}"

\* C5: authenticate and refresh_token never return on a status outside 2xx:
\* on 400 and on 404 with the OAuth envelope they raise BadRequest and
\* NotFound (the spec's AuthError) with the server's error_description, and
\* on any other such status HTTPException with that status.
C5_AuthErrors ==
    (JustEnded(AuthOps) /\ last.resp.status \notin 200..299)
    => /\ last.out.exc # "none"
       /\ (last.resp.status \in {400, 404} /\ HasKey(last.resp.body, "error_description"))
          => /\ last.out.exc = (IF last.resp.status = 400 THEN "BadRequest" ELSE "NotFound")
             /\ last.out.msg = last.resp.body.error_description
       /\ last.resp.status \notin {400, 404}
          => /\ last.out.exc = "HTTPException"
             /\ last.out.status = last.resp.status

\* authenticate has been answered 404 with the OAuth envelope.
C5_Witness ==
    /\ JustEnded({"authenticate"})
    /\ last.resp = [status |-> 404, body |-> OAuthError]
    /\ last.out = Raised("NotFound", "invalid_grant", 404)

\* C6: once the caller's run has ended, by return, error or cancellation, the
\* session has been closed.
C6_SessionClosedOnExit == run # "running" => session_closed

\* C7: search_anime answered 200 with a data array returns one Anime per
\* element, in order, each wrapping its element, and does not raise.
C7_SearchReturnsModels ==
    (JustEnded({"search_anime"}) /\ last.resp.status = 200 /\ HasKey(last.resp.body, "data"))
    => /\ last.out.exc = "none"
       /\ last.out.value =
            Some([i \in 1..Len(last.resp.body.data) |-> AnimeInit(last.resp.body.data[i])])

\* The `attributes` of the model's payload, when it is a dict.
HasAttributes ==
    /\ obj.payload.t = "map"
    /\ HasKey(obj.payload.m, "attributes")
    /\ obj.payload.m.attributes.t = "map"

Attributes == obj.payload.m.attributes.m

\* C8: no accessor of a model whose payload is a mapping raises.
C8_AccessorsTotal ==
    (read.name # "none" /\ obj.payload.t = "map") => read.exc = "none"

\* The title the spec's resolution gives: the first non-empty of en, en_jp,
\* ja_jp, else the canonical title, else nothing.
ResolvedTitle(attributes) ==
    LET titles == IF HasKey(attributes, "titles") THEN attributes.titles.m ELSE EmptyMap
        NonEmpty(k) == HasKey(titles, k) /\ titles[k] # JStr("")
    IN  IF NonEmpty("en") THEN titles["en"]
        ELSE IF NonEmpty("en_jp") THEN titles["en_jp"]
        ELSE IF NonEmpty("ja_jp") THEN titles["ja_jp"]
        ELSE IF HasKey(attributes, "canonicalTitle") THEN attributes.canonicalTitle
        ELSE JNull

\* C9: Anime.title is the first non-empty locale title in the order en, en_jp,
\* ja_jp, else the canonical title (also when there is no titles map), else
\* absent.
C9_TitleResolution ==
    (/\ read.name = "title"
     /\ obj.cls = "Anime"
     /\ HasAttributes
     /\ HasKey(Attributes, "titles") => Attributes.titles.t = "map")
    => /\ read.exc = "none"
       /\ read.value = ResolvedTitle(Attributes)

EpisodeTitleAccessors == {"canonical_title", "english_title", "japanese_title", "romaji_title"}

\* C10: an Episode with an episode number n >= 1, no canonical title (absent
\* or null) and no localized title (no titles map, or an empty one) gives
\* "Episode n" from each of its title accessors.
C10_EpisodeFallback ==
    (/\ read.name \in EpisodeTitleAccessors
     /\ obj.cls = "Episode"
     /\ HasAttributes
     /\ HasKey(Attributes, "number") /\ Attributes.number.t = "int" /\ Attributes.number.n >= 1
     /\ HasKey(Attributes, "canonicalTitle") => Attributes.canonicalTitle = JNull
     /\ HasKey(Attributes, "titles") => Attributes.titles = JMap(EmptyMap))
    => /\ read.exc = "none"
       /\ read.value = JStr("Episode " \o ToString(Attributes.number.n))

\* The primary resource object of a payload: the value under "data" when the
\* payload is a response envelope, the payload itself when it is a bare
\* resource object.
PrimaryResource(payload) ==
    IF HasKey(payload.m, "data") THEN payload.m["data"] ELSE payload

\* C11: whenever raw of an Anime, Episode or Genre has been read, after any
\* number of other accessor reads, it did not raise and its value equals the
\* primary resource object of the payload the model was constructed from:
\* the payload itself for a bare resource object, its "data" for an envelope.
C11_RawRoundTrip ==
    read.name = "raw"
    => /\ read.exc = "none"
       /\ read.value = PrimaryResource(given)

\* The full token responses a stored triple can be taken from.
FullTokenBodies == {b \in TokenBodies : DOMAIN b = TokenKeys}

\* C12: in every reachable state the stored access token, refresh token and
\* expiry are all absent, or all three are those of one status-200 token
\* response; no call that raises leaves values of two responses, or a part
\* of one response, behind.
C12_TokenTripleConsistent ==
    \/ /\ token = None
       /\ refresh_token = None
       /\ token_expires = None
    \/ \E b \in FullTokenBodies :
          /\ token = Some(b.access_token)
          /\ refresh_token = Some(b.refresh_token)
          /\ token_expires = Some(DatetimeAdd(FromTimestamp(b.created_at), Timedelta(b.expires_in)))

====
